---- MODULE Spec2Model ----
(***************************************************************************)
(* Sieve bytecode engine: the binary code writer and reader of             *)
(* lib-sieve/sieve-binary-code.c and the interpreter of                    *)
(* lib-sieve/sieve-interpreter.c.                                          *)
(*                                                                         *)
(* Conventions.                                                            *)
(*  - A code buffer is a sequence of bytes 0..255; C index i is element    *)
(*    i + 1 of the sequence.                                               *)
(*  - A sieve_number_t value is the set of its set bit positions, so that  *)
(*    the shifts and masks of the code keep their width exactly.           *)
(*  - A size_t difference or sum is kept as a model integer; a negative    *)
(*    model integer stands for the wrapped unsigned value 2^N - k, which   *)
(*    is non-zero and larger than every size the model compares it with.   *)
(*  - A read at an index >= the buffer length is an out-of-bounds read:    *)
(*    it yields whatever lies behind the buffer (beyond), or faults when   *)
(*    it leaves the mapped window.                                         *)
(***************************************************************************)
EXTENDS Integers, Sequences, FiniteSets, TLC

(***************************************************************************)
(* Bounds of the model                                                     *)
(***************************************************************************)

\* number of writer calls after which the writer stops
MaxEmits == 2

\* number of items (opcode tags, operands) of the programs that are run
MaxItems == 3

\* length of the blocks of arbitrary content the reader is run on
MaxCode == 4

\* number of bytes mapped behind the end of the buffer
MaxBeyond == 1

\* highest extension id a context is set for
MaxExtId == 1

(***************************************************************************)
(* Program constants                                                       *)
(***************************************************************************)

\* sizeof(sieve_number_t): sieve_number_t is uint64_t
SizeofNumber == 8

\* the width of an offset operand in bytes
OffsetBytes == 4

NumberBits == SizeofNumber * 8

(***************************************************************************)
(* Input sets                                                              *)
(***************************************************************************)

Byte == 0..255

\* 0x00, 0x01, 0x80, 0xFF
ByteVals == {0, 1, 128, 255}

\* what may lie behind the buffer: a zero, a non-zero byte, a continuation
BeyondVals == {0, 1, 128}

BeyondMem == [1..MaxBeyond -> BeyondVals]

IntMin == -2147483647 - 1

IntMax == -(IntMin + 1)

OffsetVals == {IntMin, -1, 0, 4, 256, IntMax}

\* 0, 1, 127, 128, 2^14, 2^63 - 1, 2^63, 2^64 - 1
NumberVals == {{}, {0}, 0..6, {7}, {14}, 0..62, {63}, 0..63}

\* the empty string, short ones, and one whose length needs two groups
StringVals == {<<>>, <<1>>, <<0>>, <<128, 255>>, [k \in 1..130 |-> 65]}

DataVals == {<<>>, <<0, 0>>, <<128, 1>>}

\* the base codes extension references are emitted with
BaseCodes == {0, 2, 30}

\* the numbers of extensions a binary has registered when a block is begun
RegistrySizes == {0, 2, 254, 255, 256}

\* the member counts of the extension object tables
ObjectCounts == {0, 1, 2, 3, 257}

\* the codes of the members chosen from a table
ObjectCodes == {0, 1, 2, 256}

\* the ids of the extensions that attach a context
ExtIds == 0..MaxExtId

\* the ids a context is asked for: also -1 and one behind the highest
AskedIds == -1..(MaxExtId + 1)

\* opaque context pointers
ContextVals == {"a", "b"}

(***************************************************************************)
(* Bit helpers                                                             *)
(***************************************************************************)

RECURSIVE ValueOfBits(_)
\* the integer whose set bits are g (g within 0..30)
ValueOfBits(g) ==
    IF g = {} THEN 0
    ELSE LET b == CHOOSE x \in g : TRUE IN 2^b + ValueOfBits(g \ {b})

BitsOfByte(b) == {i \in 0..7 : (b \div 2^i) % 2 = 1}

\* integer & 0x7F
Low7(v) == v \cap 0..6

\* integer >>= 7
ShiftRight7(v) == {b - 7 : b \in {x \in v : x >= 7}}

\* *int_r <<= 7 in a sieve_number_t: bits shifted past the width are lost
ShiftLeft7(v) == {b + 7 : b \in {x \in v : x + 7 < NumberBits}}

(***************************************************************************)
(* Code buffer (Dovecot buffer_t as used by the writer)                    *)
(***************************************************************************)

\* buffer_append(sblock->data, data, size)
buffer_append(data, bytes) == data \o bytes

\* buffer_write(sblock->data, address, data, size): overwrites in place and
\* grows the buffer (zero filled) when the region ends behind the used size
buffer_write(data, address, bytes) ==
    LET newlen == IF address + Len(bytes) > Len(data)
                  THEN address + Len(bytes) ELSE Len(data)
    IN  [i \in 1..newlen |->
            IF i > address /\ i <= address + Len(bytes) THEN bytes[i - address]
            ELSE IF i <= Len(data) THEN data[i]
            ELSE 0]

\* _sieve_binary_block_get_size(sblock)
block_get_size(data) == Len(data)

(***************************************************************************)
(* Emission functions                                                      *)
(***************************************************************************)

sieve_binary_emit_data(data, bytes) ==
    [data |-> buffer_append(data, bytes), address |-> block_get_size(data)]

sieve_binary_emit_byte(data, byte) ==
    [data |-> buffer_append(data, <<byte>>), address |-> block_get_size(data)]

sieve_binary_update_data(data, address, bytes) ==
    buffer_write(data, address, bytes)

\* variant: the bytes of the offset taken least significant first
OffsetByteLittleEndian(offset, i) ==
    (offset \div 2^((OffsetBytes - 1 - i) * 8)) % 256

\* (char) (offset >> (i * 8)): arithmetic shift, then the low eight bits
OffsetByte(offset, i) == (offset \div 2^(i * 8)) % 256

\* the four bytes of an int, most significant first (i = 3 down to 0)
OffsetEncoding(offset) ==
    [k \in 1..OffsetBytes |-> OffsetByte(offset, OffsetBytes - k)]

sieve_binary_emit_offset(data, offset) ==
    [data |-> buffer_append(data, OffsetEncoding(offset)),
     address |-> block_get_size(data)]

\* variant: the distance counted from the end of the operand
resolve_offset_from_operand_end(data, address) ==
    LET offset == block_get_size(data) - (address + OffsetBytes)
    IN  buffer_write(data, address, OffsetEncoding(offset))

\* int offset = size - address; then one buffer_write per byte at
\* address + 3 - i
sieve_binary_resolve_offset(data, address) ==
    LET offset == block_get_size(data) - address
        enc == OffsetEncoding(offset)
        w1 == buffer_write(data, address, <<enc[1]>>)
        w2 == buffer_write(w1, address + 1, <<enc[2]>>)
        w3 == buffer_write(w2, address + 2, <<enc[3]>>)
    IN  buffer_write(w3, address + 3, <<enc[4]>>)

\* the number of 7-bit groups the emit loop stores for integer (at least 1)
RECURSIVE GroupCount(_)
GroupCount(integer) ==
    IF ShiftRight7(integer) = {} THEN 1
    ELSE 1 + GroupCount(ShiftRight7(integer))

\* buffer[bufpos] = integer & 0x7F; bufpos--; integer >>= 7; while integer > 0.
\* buffer is char[sizeof(sieve_number_t) + 1], indices 0..SizeofNumber; a
\* store at an index below 0 leaves the array and is kept separately.
RECURSIVE EmitGroups(_, _, _)
EmitGroups(integer, buffer, bufpos) ==
    LET stored == [buffer EXCEPT ![bufpos] = ValueOfBits(Low7(integer))]
        rest == ShiftRight7(integer)
    IN  IF rest = {} THEN [buffer |-> stored, bufpos |-> bufpos - 1]
        ELSE EmitGroups(rest, stored, bufpos - 1)

\* index of the lowest slot the emit loop can reach for the number width
LowestSlot == SizeofNumber - ((NumberBits + 6) \div 7) + 1

BufferSlots == (IF LowestSlot < 0 THEN LowestSlot ELSE 0)..SizeofNumber

\* what the slots below buffer[0] hold when they are read back after an
\* out-of-array store: the value stored ("kept"), another byte because the
\* slot belongs to something else ("reused"), or nothing because a run-time
\* check of the build ends the process ("abort")
StackOutcomes ==
    {[kind |-> "kept", byte |-> 0], [kind |-> "abort", byte |-> 0]}
        \cup {[kind |-> "reused", byte |-> b] : b \in {0, 128}}

StackKept == [kind |-> "kept", byte |-> 0]

sieve_binary_emit_integer(data, integer, stack) ==
    LET address == block_get_size(data)
        g == EmitGroups(integer, [i \in BufferSlots |-> 0], SizeofNumber)
        bufpos == g.bufpos + 1
        overflow == bufpos < 0
        count == (SizeofNumber + 1) - bufpos
        held == [i \in BufferSlots |->
                    IF i < 0 /\ stack.kind = "reused"
                    THEN stack.byte ELSE g.buffer[i]]
        marked == [i \in BufferSlots |->
                    IF count > 1 /\ i >= bufpos /\ i < SizeofNumber
                    THEN ValueOfBits(BitsOfByte(held[i]) \cup {7})
                    ELSE held[i]]
        bytes == [k \in 1..count |-> marked[bufpos + k - 1]]
    IN  IF overflow /\ stack.kind = "abort"
        THEN [data |-> data, address |-> address, overflow |-> TRUE,
              aborted |-> TRUE]
        ELSE [data |-> buffer_append(data, bytes), address |-> address,
              overflow |-> overflow, aborted |-> FALSE]

\* a size as a sieve_number_t
NumberOfNat(n) == {i \in 0..30 : (n \div 2^i) % 2 = 1}

\* emit_integer of the size (never more than five groups), then the data
sieve_binary_emit_dynamic_data(data, bytes) ==
    LET e == sieve_binary_emit_integer(data, NumberOfNat(Len(bytes)), StackKept)
    IN  [data |-> buffer_append(e.data, bytes), address |-> e.address]

\* variant: the string emitted without its terminator
emit_string_unterminated(data, str) ==
    sieve_binary_emit_dynamic_data(data, str)

sieve_binary_emit_string(data, str) ==
    LET e == sieve_binary_emit_dynamic_data(data, str)
    IN  [data |-> buffer_append(e.data, <<0>>), address |-> e.address]

\* no extension: the NULL of an extension pointer
NoExtension == 0

\* sieve_binary_extension_register: the index the binary's table has for
\* the extension, assigned behind the last one when it is not in the table
sieve_binary_extension_register(registry, ext) ==
    IF \E i \in 1..Len(registry) : registry[i] = ext
    THEN [extensions |-> registry, ereg |-> "ereg",
          index |-> (CHOOSE i \in 1..Len(registry) : registry[i] = ext) - 1]
    ELSE [extensions |-> Append(registry, ext), ereg |-> "ereg",
          index |-> Len(registry)]

\* sieve_binary_extension_get_by_index: NULL for an index not in the table
sieve_binary_extension_get_by_index(registry, index) ==
    IF index >= 0 /\ index < Len(registry) THEN registry[index + 1]
    ELSE NoExtension

\* the unsigned char an unsigned int argument is converted to
ByteOf(n) == n % 256

\* i_assert(ereg != NULL) ends the process
sieve_binary_emit_extension(data, registry, ext, offset) ==
    LET address == block_get_size(data)
        reg == sieve_binary_extension_register(registry, ext)
    IN  IF reg.ereg = "NULL"
        THEN [data |-> data, address |-> address,
              extensions |-> reg.extensions, aborted |-> TRUE]
        ELSE [data |-> buffer_append(data, <<ByteOf(offset + reg.index)>>),
              address |-> address, extensions |-> reg.extensions,
              aborted |-> FALSE]

\* objs is the member count of the table; address is where the selector
\* byte lies if one is emitted (the function itself returns nothing)
sieve_binary_emit_extension_object(data, objs, code) ==
    IF objs > 1
    THEN [data |-> buffer_append(data, <<ByteOf(code)>>),
          address |-> block_get_size(data)]
    ELSE [data |-> data, address |-> block_get_size(data)]

(***************************************************************************)
(* Code retrieval                                                          *)
(***************************************************************************)

\* _code[i] is inside the mapped window (the buffer and what lies behind it)
Mapped(data, beyond, i) == i >= 0 /\ i < Len(data) + Len(beyond)

\* _code[*address]
ADDR_DATA_AT(data, beyond, address) ==
    IF address < Len(data) THEN data[address + 1]
    ELSE beyond[address - Len(data) + 1]

\* (signed char) _code[*address]
ADDR_CODE_AT(data, beyond, address) ==
    LET b == ADDR_DATA_AT(data, beyond, address)
    IN  IF b >= 128 THEN b - 256 ELSE b

\* _code_size - *address, a size_t: negative here means wrapped
ADDR_BYTES_LEFT(data, address) == Len(data) - address

\* ADDR_BYTES_LEFT(address) >= n for a constant n >= 1, compared unsigned
BytesLeftAtLeast(data, address, n) ==
    LET left == ADDR_BYTES_LEFT(data, address) IN left < 0 \/ left >= n

\* the result of a reader call that dereferenced an unmapped index
Faulted(address) ==
    [ok |-> FALSE, address |-> address, value |-> 0, oob |-> TRUE,
     fault |-> TRUE]

sieve_binary_read_byte(data, beyond, address) ==
    IF BytesLeftAtLeast(data, address, 1)
    THEN IF ~Mapped(data, beyond, address) THEN Faulted(address)
         ELSE [ok |-> TRUE, address |-> address + 1,
               value |-> ADDR_DATA_AT(data, beyond, address),
               oob |-> address >= Len(data), fault |-> FALSE]
    ELSE [ok |-> FALSE, address |-> address, value |-> 0, oob |-> FALSE,
          fault |-> FALSE]

\* variant: a read that leaves the cursor on the code it has read
read_code_without_jump(data, beyond, address) ==
    IF BytesLeftAtLeast(data, address, 1)
    THEN IF ~Mapped(data, beyond, address) THEN Faulted(address)
         ELSE [ok |-> TRUE, address |-> address,
               value |-> ADDR_CODE_AT(data, beyond, address),
               oob |-> address >= Len(data), fault |-> FALSE]
    ELSE [ok |-> FALSE, address |-> address, value |-> 0, oob |-> FALSE,
          fault |-> FALSE]

sieve_binary_read_code(data, beyond, address) ==
    IF BytesLeftAtLeast(data, address, 1)
    THEN IF ~Mapped(data, beyond, address) THEN Faulted(address)
         ELSE [ok |-> TRUE, address |-> address + 1,
               value |-> ADDR_CODE_AT(data, beyond, address),
               oob |-> address >= Len(data), fault |-> FALSE]
    ELSE [ok |-> FALSE, address |-> address, value |-> 0, oob |-> FALSE,
          fault |-> FALSE]

\* variant: the offset accumulated least significant byte first
IntOfBytesLittleEndian(b0, b1, b2, b3) ==
    (IF b3 >= 128 THEN b3 - 256 ELSE b3) * 16777216
        + b2 * 65536 + b1 * 256 + b0

\* (int) offs for the uint32_t offs accumulated as (offs << 8) + byte
IntOfBytes(b0, b1, b2, b3) ==
    (IF b0 >= 128 THEN b0 - 256 ELSE b0) * 16777216
        + b1 * 65536 + b2 * 256 + b3

sieve_binary_read_offset(data, beyond, address) ==
    IF BytesLeftAtLeast(data, address, OffsetBytes)
    THEN IF \E k \in 0..(OffsetBytes - 1) : ~Mapped(data, beyond, address + k)
         THEN Faulted(address)
         ELSE [ok |-> TRUE, address |-> address + OffsetBytes,
               value |-> IntOfBytes(ADDR_DATA_AT(data, beyond, address),
                                    ADDR_DATA_AT(data, beyond, address + 1),
                                    ADDR_DATA_AT(data, beyond, address + 2),
                                    ADDR_DATA_AT(data, beyond, address + 3)),
               oob |-> address + OffsetBytes > Len(data), fault |-> FALSE]
    ELSE [ok |-> FALSE, address |-> address, value |-> 0, oob |-> FALSE,
          fault |-> FALSE]

\* the loop of sieve_binary_read_integer and the statements behind it: the
\* loop condition dereferences _code[*address] before anything is checked
RECURSIVE ReadGroups(_, _, _, _, _, _)
ReadGroups(data, beyond, address, int_r, bits, oob) ==
    IF ~Mapped(data, beyond, address) THEN Faulted(address)
    ELSE
    LET c == ADDR_DATA_AT(data, beyond, address)
        seen == oob \/ address >= Len(data)
    IN  IF 7 \in BitsOfByte(c)
        THEN IF ADDR_BYTES_LEFT(data, address) # 0 /\ bits > 0
             THEN ReadGroups(data, beyond, address + 1,
                             ShiftLeft7(int_r \cup Low7(BitsOfByte(c))),
                             bits - 7, seen)
             ELSE [ok |-> FALSE, address |-> address, value |-> int_r,
                   oob |-> seen, fault |-> FALSE]
        ELSE [ok |-> TRUE, address |-> address + 1,
              value |-> int_r \cup Low7(BitsOfByte(c)),
              oob |-> seen, fault |-> FALSE]

sieve_binary_read_integer(data, beyond, address) ==
    IF ADDR_BYTES_LEFT(data, address) = 0
    THEN [ok |-> FALSE, address |-> address, value |-> {}, oob |-> FALSE,
          fault |-> FALSE]
    ELSE ReadGroups(data, beyond, address, {}, NumberBits, FALSE)

\* reads an integer and stores it in an unsigned int
sieve_binary_read_unsigned(data, beyond, address) ==
    LET r == sieve_binary_read_integer(data, beyond, address)
    IN  IF r.fault THEN r ELSE [r EXCEPT !.value = r.value \cap 0..31]

\* strlen > ADDR_BYTES_LEFT(address), compared unsigned
ExceedsBytesLeft(strlen, data, address) ==
    LET left == ADDR_BYTES_LEFT(data, address)
    IN  left >= 0 /\ ((\E b \in strlen : b > 30) \/ ValueOfBits(strlen) > left)

sieve_binary_read_string(data, beyond, address) ==
    LET u == sieve_binary_read_unsigned(data, beyond, address)
    IN  IF u.fault THEN u
        ELSE IF ~u.ok THEN [u EXCEPT !.value = <<>>]
        ELSE IF ExceedsBytesLeft(u.value, data, u.address)
        THEN [u EXCEPT !.ok = FALSE, !.value = <<>>]
        ELSE IF \E b \in u.value : b > 30 THEN Faulted(u.address)
        ELSE
        LET strlen == ValueOfBits(u.value)
            past == u.address + strlen
            view == [k \in 1..strlen |->
                        IF Mapped(data, beyond, u.address + k - 1)
                        THEN ADDR_DATA_AT(data, beyond, u.address + k - 1)
                        ELSE 0]
            seen == u.oob \/ past >= Len(data)
        IN  IF ~Mapped(data, beyond, past) THEN Faulted(past)
            ELSE IF ADDR_CODE_AT(data, beyond, past) # 0
            THEN [ok |-> FALSE, address |-> past, value |-> view,
                  oob |-> seen, fault |-> FALSE]
            ELSE [ok |-> TRUE, address |-> past + 1, value |-> view,
                  oob |-> seen, fault |-> FALSE]

\* ok is the bool returned, value the extension (and the code read)
sieve_binary_read_extension(data, beyond, address, registry, offset) ==
    IF ADDR_BYTES_LEFT(data, address) = 0
    THEN [ok |-> FALSE, address |-> address,
          value |-> [ext |-> NoExtension, code |-> offset, base |-> offset],
          oob |-> FALSE, fault |-> FALSE]
    ELSE IF ~Mapped(data, beyond, address) THEN Faulted(address)
    ELSE
    LET code == ADDR_DATA_AT(data, beyond, address)
        ext == IF code >= offset
               THEN sieve_binary_extension_get_by_index(registry,
                                                        code - offset)
               ELSE NoExtension
    IN  [ok |-> ~(code >= offset /\ ext = NoExtension),
         address |-> address + 1,
         value |-> [ext |-> ext, code |-> code, base |-> offset],
         oob |-> address >= Len(data), fault |-> FALSE]

\* no object: the NULL of an object pointer
NoObject == -1

\* objs is the member count of the table, a member is its index in the
\* table; value is the pointer returned, ok that it is not NULL
sieve_binary_read_extension_object(data, beyond, address, objs) ==
    IF objs = 0
    THEN [ok |-> FALSE, address |-> address,
          value |-> [object |-> NoObject, count |-> objs],
          oob |-> FALSE, fault |-> FALSE]
    ELSE IF objs = 1
    THEN [ok |-> TRUE, address |-> address,
          value |-> [object |-> 0, count |-> objs],
          oob |-> FALSE, fault |-> FALSE]
    ELSE IF ADDR_BYTES_LEFT(data, address) = 0
    THEN [ok |-> FALSE, address |-> address,
          value |-> [object |-> NoObject, count |-> objs],
          oob |-> FALSE, fault |-> FALSE]
    ELSE IF ~Mapped(data, beyond, address) THEN Faulted(address)
    ELSE
    LET code == ADDR_DATA_AT(data, beyond, address)
    IN  [ok |-> code < objs, address |-> address + 1,
         value |-> [object |-> IF code >= objs THEN NoObject ELSE code,
                    count |-> objs],
         oob |-> address >= Len(data), fault |-> FALSE]

(***************************************************************************)
(* Operations (opcodes) and their hooks                                    *)
(***************************************************************************)

\* the operations known to the engine, indexed by tag (tag 0 first).  Each
\* has an execute hook, a dump hook and a mnemonic; "NULL" is a missing one.
Opcodes ==
    << [mnemonic |-> "JMP", execute |-> "jmp", dump |-> "offset"],
       [mnemonic |-> "JMPTRUE", execute |-> "jmptrue", dump |-> "offset"],
       [mnemonic |-> "TEST", execute |-> "test", dump |-> "NULL"],
       [mnemonic |-> "STOP", execute |-> "stop", dump |-> "NULL"],
       [mnemonic |-> "KEEP", execute |-> "keep", dump |-> "keep"],
       [mnemonic |-> "NULL", execute |-> "NULL", dump |-> "NULL"] >>

NullOpcode == [mnemonic |-> "NULL", execute |-> "NULL", dump |-> "NULL"]

\* the tag of the operation with the given execute hook
Tag(hook) == (CHOOSE t \in 1..Len(Opcodes) : Opcodes[t].execute = hook) - 1

\* a tag no operation is registered for
UnknownTag == Len(Opcodes) + 1

\* sieve_operation_read: one opcode tag is read at *address with read_code;
\* NULL (known = FALSE) when the read fails or no operation has that tag
sieve_operation_read(data, beyond, address) ==
    LET r == sieve_binary_read_code(data, beyond, address)
        known == r.ok /\ r.value >= 0 /\ r.value < Len(Opcodes)
    IN  [known |-> known,
         opcode |-> IF known THEN Opcodes[r.value + 1] ELSE NullOpcode,
         address |-> r.address, oob |-> r.oob, fault |-> r.fault]

(***************************************************************************)
(* Interpreter                                                             *)
(***************************************************************************)

sieve_binary_get_code_size(data) == Len(data)

\* an unsigned size_t comparison x <= n; a wrapped x (negative here) is not
SizeLe(x, n) == x >= 0 /\ x <= n

\* variant: a target of zero let through
SizeGtZeroOrZero(x) == TRUE

\* an unsigned size_t comparison x > 0; only zero is not
SizeGtZero(x) == x # 0

sieve_interpreter_read_offset_operand(data, beyond, pc) ==
    sieve_binary_read_offset(data, beyond, pc)

\* variant: an array that fills the gap with the element it stores
array_idx_set_filling(array, idx, elem) ==
    [i \in 1..(IF idx + 1 > Len(array) THEN idx + 1 ELSE Len(array)) |->
        IF i = idx + 1 \/ i > Len(array) THEN elem ELSE array[i]]

\* array_idx_set(&interpreter->ext_contexts, ext_id, &context): the array
\* grows to hold the index, the elements in between are zeroed
array_idx_set(array, idx, elem) ==
    [i \in 1..(IF idx + 1 > Len(array) THEN idx + 1 ELSE Len(array)) |->
        IF i = idx + 1 THEN elem
        ELSE IF i <= Len(array) THEN array[i]
        ELSE "NULL"]

sieve_interpreter_extension_set_context(contexts, ext_id, context) ==
    array_idx_set(contexts, ext_id, context)

sieve_interpreter_extension_get_context(contexts, ext_id) ==
    IF ext_id < 0 \/ ext_id >= Len(contexts) THEN "NULL"
    ELSE contexts[ext_id + 1]

\* variant: the target counted from the end of the operand
JumpTargetAfterOperand(pc, after, offset) == after + offset

\* pc + offset, where pc was copied from interp->pc before the operand was
\* read (after is interp->pc once the operand has been read)
JumpTarget(pc, after, offset) == pc + offset

\* variant: the program counter moved whether or not the jump is taken
JumpedPcAlways(valid, jump, target, after) ==
    IF valid THEN target ELSE after

\* if ( jump ) interp->pc = pc + offset; inside the valid branch
JumpedPc(valid, jump, target, after) ==
    IF valid /\ jump THEN target ELSE after

\* sieve_interpreter_program_jump: the result holds the return value and the
\* program counter afterwards
sieve_interpreter_program_jump(data, beyond, pc, jump) ==
    LET r == sieve_interpreter_read_offset_operand(data, beyond, pc)
        target == JumpTarget(pc, r.address, r.value)
        valid == r.ok /\ SizeLe(target, sieve_binary_get_code_size(data))
                      /\ SizeGtZero(target)
    IN  [ok |-> valid,
         pc |-> JumpedPc(valid, jump, target, r.address),
         oob |-> r.oob, fault |-> r.fault,
         readable |-> r.ok, offset |-> r.value]

\* what is kept of a call of the jump primitive
JumpCall(pc, jump, j) ==
    [called |-> TRUE, at |-> pc, jump |-> jump, ok |-> j.ok,
     readable |-> j.readable, offset |-> j.offset]

NoJump == [called |-> FALSE, at |-> 0, jump |-> FALSE, ok |-> FALSE,
           readable |-> FALSE, offset |-> 0]

\* consumes the optional operands of an action; none are present in the
\* programs of this model: nothing is consumed and the list is empty
sieve_interpreter_handle_optional_operands(data, address) ==
    [ret |-> 1, address |-> address, slist |-> <<>>]

\* variant: a keep that succeeds without adding the action to the result
cmd_keep_without_add(o, accept) ==
    [ret |-> IF o.ret <= 0 THEN o.ret ELSE 1, address |-> o.address,
     added |-> FALSE, slist |-> <<>>]

\* cmd_keep_operation_execute behind its call of the optional operand
\* helper, which returned o: the int it returns, and the call it makes to
\* the result (added: add_keep was called; accept: the result took it)
cmd_keep_after_operands(o, accept) ==
    LET ret == IF accept THEN 1 ELSE -1
    IN  IF o.ret <= 0
        THEN [ret |-> o.ret, address |-> o.address, added |-> FALSE,
              slist |-> <<>>]
        ELSE [ret |-> IF ret >= 0 THEN 1 ELSE 0, address |-> o.address,
              added |-> TRUE, slist |-> o.slist]

cmd_keep_operation_execute(data, address, accept) ==
    cmd_keep_after_operands(
        sieve_interpreter_handle_optional_operands(data, address), accept)

\* the execute hook of an operation, run on the interpreter state
\* st = [pc, stopped, test_result]; ret is the value the hook returns
Execute(hook, data, beyond, st, accept) ==
    CASE hook = "jmp" ->
            LET j == sieve_interpreter_program_jump(data, beyond, st.pc, TRUE)
            IN  [st EXCEPT !.pc = j.pc, !.ret = IF j.ok THEN 1 ELSE 0,
                           !.oob = j.oob, !.fault = j.fault,
                           !.jump = JumpCall(st.pc, TRUE, j)]
      [] hook = "jmptrue" ->
            LET j == sieve_interpreter_program_jump(data, beyond, st.pc,
                                                    st.test_result)
            IN  [st EXCEPT !.pc = j.pc, !.ret = IF j.ok THEN 1 ELSE 0,
                           !.oob = j.oob, !.fault = j.fault,
                           !.jump = JumpCall(st.pc, st.test_result, j)]
      [] hook = "test" -> [st EXCEPT !.test_result = TRUE, !.ret = 1]
      [] hook = "stop" -> [st EXCEPT !.stopped = TRUE, !.ret = 1]
      [] hook = "keep" ->
            LET k == cmd_keep_operation_execute(data, st.pc, accept)
            IN  [st EXCEPT !.pc = k.address, !.ret = k.ret,
                           !.added = k.added, !.slist = k.slist,
                           !.accepted = accept]
      [] OTHER -> [st EXCEPT !.ret = 0]

\* sieve_interpreter_execute_operation: the bool it returns is ok
sieve_interpreter_execute_operation(data, beyond, st, accept) ==
    LET f == sieve_operation_read(data, beyond, st.pc)
        at == [st EXCEPT !.pc = f.address, !.oob = f.oob, !.fault = f.fault,
                         !.known = f.known, !.hook = f.opcode.execute]
    IN  IF f.known
        THEN IF f.opcode.execute # "NULL"
             THEN LET x == Execute(f.opcode.execute, data, beyond, at, accept)
                  IN  [x EXCEPT !.ok = x.ret # 0 /\ ~x.fault]
             ELSE [at EXCEPT !.ok = FALSE]
        ELSE [at EXCEPT !.ok = FALSE]

\* the dump hook of an operation
Dump(hook, data, beyond, st) ==
    CASE hook = "offset" ->
            LET r == sieve_binary_read_offset(data, beyond, st.pc)
            IN  [st EXCEPT !.pc = r.address, !.ok = r.ok, !.oob = r.oob,
                           !.fault = r.fault]
      [] hook = "keep" -> [st EXCEPT !.ok = TRUE]
      [] OTHER -> [st EXCEPT !.ok = FALSE]

\* sieve_interpreter_dump_operation
sieve_interpreter_dump_operation(data, beyond, st) ==
    LET f == sieve_operation_read(data, beyond, st.pc)
        at == [st EXCEPT !.pc = f.address, !.oob = f.oob, !.fault = f.fault,
                         !.known = f.known, !.hook = f.opcode.dump]
    IN  IF f.known
        THEN IF f.opcode.dump # "NULL" THEN Dump(f.opcode.dump, data, beyond, at)
             ELSE IF f.opcode.mnemonic # "NULL" THEN [at EXCEPT !.ok = TRUE]
             ELSE [at EXCEPT !.ok = FALSE]
        ELSE [at EXCEPT !.ok = FALSE]

(***************************************************************************)
(* State                                                                   *)
(***************************************************************************)

VARIABLES
    data,          \* sblock->data: the bytes of the code block
    returned,      \* the addresses the emit calls returned
    placeholders,  \* addresses returned by emit_offset and not yet resolved
    emits,         \* number of writer calls made so far
    emitted,       \* the last emit call: what was emitted and where
    patch,         \* the last in-place patch (update_data, resolve_offset)
    extensions,    \* sbin: the extension index table (identity at index)
    address,       \* the reader's cursor as the last reader call left it
    call,          \* the last reader call and what it returned
    pc,            \* interp->pc
    stopped,       \* interp->stopped
    test_result,   \* interp->test_result
    msgdata,       \* interp->runenv.msgdata
    result,        \* interp->runenv.result
    ext_contexts,  \* interp->ext_contexts
    result_refs,   \* the reference count of the result object
    mode,          \* where the interpreter is: idle, in run, in dump_code
    step,          \* the last operation executed or dumped
    jumped,        \* the last call of the jump primitive
    last,          \* the last interpreter call that returned
    output,        \* the last report line printed
    keeps,         \* the side-effect lists add_keep was called with in this run
    fetches,       \* the opcode fetches of this run, and whether one jumped back
    ctx            \* the last extension context call and what it returned

codecVars ==
    <<data, returned, placeholders, emits, emitted, patch, address, call,
      extensions>>

interpVars ==
    <<pc, stopped, test_result, msgdata, result, ext_contexts, result_refs,
      mode, step, jumped, last, output, keeps, fetches, ctx>>

vars == <<codecVars, interpVars>>

NoStep == [kind |-> "none", at |-> 0, known |-> FALSE, hook |-> "NULL",
           ret |-> 0, ok |-> FALSE]

NoLast == [op |-> "none", ok |-> FALSE, at |-> 0]

NoFetches == [count |-> 0, backward |-> FALSE]

\* set: the context set last for each id, NULL as long as none was set
NoCtx == [op |-> "none", id |-> 0, value |-> "NULL",
          set |-> [i \in ExtIds |-> "NULL"]]

\* sieve_interpreter_create
InitInterp ==
    /\ pc = 0
    /\ stopped = FALSE
    /\ test_result = FALSE
    /\ msgdata = "NULL"
    /\ result = "NULL"
    /\ ext_contexts = <<>>
    /\ result_refs = 1
    /\ mode = "idle"
    /\ step = NoStep
    /\ jumped = NoJump
    /\ last = NoLast
    /\ output = ""
    /\ keeps = <<>>
    /\ fetches = NoFetches
    /\ ctx = NoCtx

NoEmit == [op |-> "none", address |-> 0, size |-> 0, value |-> 0,
           patched |-> FALSE,
           overflow |-> FALSE, aborted |-> FALSE]

NoPatch == [op |-> "none", address |-> 0, size |-> 0]

NoCall == [op |-> "none", at |-> 0, ok |-> FALSE, value |-> 0,
           oob |-> FALSE, fault |-> FALSE]

Init ==
    /\ data = <<>>
    /\ returned = {}
    /\ placeholders = {}
    /\ emits = 0
    /\ emitted = NoEmit
    /\ patch = NoPatch
    /\ address = 0
    /\ call = NoCall
    /\ extensions = <<>>
    /\ InitInterp

(***************************************************************************)
(* Writer calls: the block is written before it is handed to a reader      *)
(***************************************************************************)

Writing == call.op = "none" /\ ~emitted.aborted

\* the bookkeeping common to every emit call
Emitted(op, e, value, overflow, aborted) ==
    /\ data' = e.data
    /\ returned' = IF aborted THEN returned ELSE returned \cup {e.address}
    /\ emits' = emits + 1
    /\ emitted' = [op |-> op, address |-> e.address, size |-> Len(e.data),
                   value |-> value, patched |-> FALSE, overflow |-> overflow,
                   aborted |-> aborted]
    /\ UNCHANGED <<patch, address, call, interpVars>>

\* an emit call that leaves the extension index table alone
EmittedCode(op, e, value, overflow, aborted) ==
    /\ Emitted(op, e, value, overflow, aborted)
    /\ UNCHANGED extensions

EmitByte ==
    /\ Writing
    /\ emits < MaxEmits
    /\ \E b \in ByteVals :
        /\ EmittedCode("emit_byte", sieve_binary_emit_byte(data, b), b,
                   FALSE, FALSE)
        /\ UNCHANGED placeholders

EmitData ==
    /\ Writing
    /\ emits < MaxEmits
    /\ \E bytes \in DataVals :
        /\ EmittedCode("emit_data", sieve_binary_emit_data(data, bytes), bytes,
                   FALSE, FALSE)
        /\ UNCHANGED placeholders

EmitOffset ==
    /\ Writing
    /\ emits < MaxEmits
    /\ \E offset \in OffsetVals :
        LET e == sieve_binary_emit_offset(data, offset)
        IN  /\ EmittedCode("emit_offset", e, offset, FALSE, FALSE)
            /\ placeholders' = placeholders \cup {e.address}

EmitInteger ==
    /\ Writing
    /\ emits < MaxEmits
    /\ \E integer \in NumberVals :
        \E stack \in IF GroupCount(integer) > SizeofNumber + 1
                     THEN StackOutcomes ELSE {StackKept} :
            LET e == sieve_binary_emit_integer(data, integer, stack)
            IN  /\ EmittedCode("emit_integer", e, integer, e.overflow, e.aborted)
                /\ UNCHANGED placeholders

EmitString ==
    /\ Writing
    /\ emits < MaxEmits
    /\ \E str \in StringVals :
        /\ EmittedCode("emit_string", sieve_binary_emit_string(data, str), str,
                   FALSE, FALSE)
        /\ UNCHANGED placeholders

\* the extensions referenced: the first ones of the table, the last one,
\* and one that is not in it yet
ExtensionChoices ==
    {x \in {1, 2, Len(extensions), Len(extensions) + 1} : x >= 1}

EmitExtension ==
    /\ Writing
    /\ emits < MaxEmits
    /\ \E ext \in ExtensionChoices : \E offset \in BaseCodes :
        LET e == sieve_binary_emit_extension(data, extensions, ext, offset)
        IN  /\ Emitted("emit_extension", e, [ext |-> ext, base |-> offset],
                       FALSE, e.aborted)
            /\ extensions' = e.extensions
            /\ UNCHANGED placeholders

EmitExtensionObject ==
    /\ Writing
    /\ emits < MaxEmits
    /\ \E objs \in ObjectCounts :
        \E code \in {c \in ObjectCodes : c < objs \/ c = 0} :
            /\ EmittedCode("emit_extension_object",
                           sieve_binary_emit_extension_object(data, objs, code),
                           [count |-> objs, code |-> code], FALSE, FALSE)
            /\ UNCHANGED placeholders

\* the addresses a caller patches: one an emit call returned, or the last
\* byte written
PatchAddresses == {a \in returned \cup {Len(data) - 1} : a >= 0 /\ a < Len(data)}

\* the caller patches a byte it has written before: address + size <= used
UpdateData ==
    /\ Writing
    /\ emits < MaxEmits
    /\ \E a \in PatchAddresses : \E b \in ByteVals :
        /\ data' = sieve_binary_update_data(data, a, <<b>>)
        /\ patch' = [op |-> "update_data", address |-> a, size |-> Len(data)]
        /\ emitted' = [emitted EXCEPT !.patched = TRUE]
    /\ emits' = emits + 1
    /\ UNCHANGED <<returned, placeholders, address, call, extensions,
                   interpVars>>

ResolveOffset ==
    /\ Writing
    /\ \E a \in placeholders :
        /\ data' = sieve_binary_resolve_offset(data, a)
        /\ patch' = [op |-> "resolve_offset", address |-> a,
                     size |-> Len(data)]
        /\ placeholders' = placeholders \ {a}
        /\ emitted' = [emitted EXCEPT !.patched = TRUE]
    /\ UNCHANGED <<returned, emits, address, call, extensions, interpVars>>

(***************************************************************************)
(* Reader calls                                                            *)
(***************************************************************************)

\* the cursors a caller passes: an address an emit call returned, the end of
\* the block, or the cursor as the previous successful reader call left it
Cursors == returned \cup {Len(data)} \cup (IF call.ok THEN {address} ELSE {})

ZeroMem == [k \in 1..MaxBeyond |-> 0]

\* what lies behind the buffer matters only to a call that reads there
Beyond(oob) == IF oob THEN BeyondMem ELSE {ZeroMem}

\* the bookkeeping common to every reader call; nothing runs after an abort
Returned(op, at, r) ==
    /\ ~emitted.aborted
    /\ call' = [op |-> op, at |-> at, ok |-> r.ok, value |-> r.value,
                oob |-> r.oob, fault |-> r.fault]
    /\ address' = r.address
    /\ UNCHANGED <<data, returned, placeholders, emits, emitted, patch,
                   extensions, interpVars>>

ReadByte ==
    \E at \in Cursors :
        \E beyond \in Beyond(sieve_binary_read_byte(data, ZeroMem, at).oob) :
            Returned("read_byte", at, sieve_binary_read_byte(data, beyond, at))

ReadCode ==
    \E at \in Cursors :
        \E beyond \in Beyond(sieve_binary_read_code(data, ZeroMem, at).oob) :
            Returned("read_code", at, sieve_binary_read_code(data, beyond, at))

ReadOffset ==
    \E at \in Cursors :
        \E beyond \in Beyond(sieve_binary_read_offset(data, ZeroMem, at).oob) :
            Returned("read_offset", at,
                     sieve_binary_read_offset(data, beyond, at))

ReadInteger ==
    \E at \in Cursors :
        \E beyond \in Beyond(sieve_binary_read_integer(data, ZeroMem, at).oob) :
            Returned("read_integer", at,
                     sieve_binary_read_integer(data, beyond, at))

ReadString ==
    \E at \in Cursors :
        \E beyond \in Beyond(sieve_binary_read_string(data, ZeroMem, at).oob) :
            Returned("read_string", at,
                     sieve_binary_read_string(data, beyond, at))

ReadExtension ==
    \E at \in Cursors : \E offset \in BaseCodes :
        \E beyond \in Beyond(sieve_binary_read_extension(
                                 data, ZeroMem, at, extensions, offset).oob) :
            Returned("read_extension", at,
                     sieve_binary_read_extension(data, beyond, at,
                                                 extensions, offset))

ReadExtensionObject ==
    \E at \in Cursors : \E objs \in ObjectCounts :
        \E beyond \in Beyond(sieve_binary_read_extension_object(
                                 data, ZeroMem, at, objs).oob) :
            Returned("read_extension_object", at,
                     sieve_binary_read_extension_object(data, beyond, at,
                                                        objs))

(***************************************************************************)
(* Interpreter calls                                                       *)
(***************************************************************************)

\* the interpreter state the hooks work on
St == [pc |-> pc, stopped |-> stopped, test_result |-> test_result,
       ret |-> 0, ok |-> FALSE, oob |-> FALSE, fault |-> FALSE,
       known |-> FALSE, hook |-> "NULL", added |-> FALSE, slist |-> <<>>,
       accepted |-> FALSE, jump |-> NoJump]

\* variant: a reset that leaves the stopped flag
ResetFieldsKeepingStopped ==
    /\ pc' = 0
    /\ stopped' = stopped
    /\ test_result' = FALSE

\* sieve_interpreter_reset
ResetFields ==
    /\ pc' = 0
    /\ stopped' = FALSE
    /\ test_result' = FALSE

Reset ==
    /\ mode = "idle"
    /\ ResetFields
    /\ msgdata' = "NULL"
    /\ result' = "NULL"
    /\ step' = NoStep
    /\ jumped' = NoJump
    /\ last' = [op |-> "reset", ok |-> TRUE, at |-> pc]
    /\ UNCHANGED <<codecVars, keeps, fetches, ctx, ext_contexts, result_refs, mode, output>>

\* sieve_interpreter_program_jump called on the interpreter as it stands
ProgramJump ==
    /\ mode = "idle"
    /\ \E jump \in BOOLEAN :
        \E beyond \in Beyond(sieve_interpreter_program_jump(
                                 data, ZeroMem, pc, jump).oob) :
            LET j == sieve_interpreter_program_jump(data, beyond, pc, jump)
            IN  /\ pc' = j.pc
                /\ jumped' = JumpCall(pc, jump, j)
                /\ last' = [op |-> "program_jump", ok |-> j.ok, at |-> pc]
    /\ step' = NoStep
    /\ UNCHANGED <<codecVars, keeps, fetches, ctx, stopped, test_result, msgdata, result,
                   ext_contexts, result_refs, mode, output>>

\* sieve_interpreter_read_offset_operand called on the interpreter
ReadOffsetOperand ==
    /\ mode = "idle"
    /\ \E beyond \in Beyond(sieve_interpreter_read_offset_operand(
                                data, ZeroMem, pc).oob) :
        LET r == sieve_interpreter_read_offset_operand(data, beyond, pc)
        IN  /\ pc' = r.address
            /\ last' = [op |-> "read_offset_operand", ok |-> r.ok, at |-> pc]
    /\ step' = NoStep
    /\ jumped' = NoJump
    /\ UNCHANGED <<codecVars, keeps, fetches, ctx, stopped, test_result, msgdata, result,
                   ext_contexts, result_refs, mode, output>>

\* sieve_interpreter_run up to its loop
RunBegin ==
    /\ mode = "idle"
    /\ ResetFields
    /\ msgdata' = "msgdata"
    /\ result' = "result"
    /\ result_refs' = result_refs + 1
    /\ mode' = "run"
    /\ step' = NoStep
    /\ jumped' = NoJump
    /\ last' = NoLast
    /\ output' = ""
    /\ keeps' = <<>>
    /\ fetches' = NoFetches
    /\ UNCHANGED <<codecVars, ext_contexts, ctx>>

\* a run is followed until add_keep has been called this many times: more
\* than a program without a loop can call it
KeepsCap == MaxItems + 2

\* the result takes or rejects an action; it is asked only by keep
Accepts ==
    IF sieve_operation_read(data, ZeroMem, pc).opcode.execute = "keep"
    THEN BOOLEAN ELSE {TRUE}

\* a run is followed for this many opcode fetches: one more than the
\* longest binary has bytes
FetchCap == OffsetBytes * MaxItems + 1

\* one more opcode was fetched and executed with outcome x; backward: a
\* taken jump has moved the pc to the address of its opcode or before it
Fetched(x) ==
    [count |-> fetches.count + 1,
     backward |-> \/ fetches.backward
                  \/ (x.jump.called /\ x.jump.ok /\ x.jump.jump
                          /\ x.pc <= pc)]

\* variant: a run loop that goes on after a failed operation
RunLoopBodyContinue(x) ==
    /\ pc' = x.pc
    /\ stopped' = x.stopped
    /\ test_result' = x.test_result
    /\ step' = [kind |-> "execute", at |-> pc, known |-> x.known,
                hook |-> x.hook, ret |-> x.ret, ok |-> x.ok]
    /\ jumped' = x.jump
    /\ keeps' = IF x.added
                THEN Append(keeps, [slist |-> x.slist,
                                    accepted |-> x.accepted])
                ELSE keeps
    /\ fetches' = Fetched(x)
    /\ UNCHANGED <<result_refs, mode, last, output>>

\* variant: an abort that leaves the reference on the result
RunLoopBodyLeaking(x) ==
    /\ pc' = x.pc
    /\ stopped' = x.stopped
    /\ test_result' = x.test_result
    /\ step' = [kind |-> "execute", at |-> pc, known |-> x.known,
                hook |-> x.hook, ret |-> x.ret, ok |-> x.ok]
    /\ jumped' = x.jump
    /\ keeps' = IF x.added
                THEN Append(keeps, [slist |-> x.slist,
                                    accepted |-> x.accepted])
                ELSE keeps
    /\ fetches' = Fetched(x)
    /\ IF x.ok
       THEN /\ UNCHANGED <<result_refs, mode, last, output>>
       ELSE /\ output' = "Execution aborted."
            /\ result_refs' = result_refs
            /\ mode' = "idle"
            /\ last' = [op |-> "run", ok |-> FALSE, at |-> pc]

\* what the run loop does with the bool of execute_operation
RunLoopBody(x) ==
    /\ pc' = x.pc
    /\ stopped' = x.stopped
    /\ test_result' = x.test_result
    /\ step' = [kind |-> "execute", at |-> pc, known |-> x.known,
                hook |-> x.hook, ret |-> x.ret, ok |-> x.ok]
    /\ jumped' = x.jump
    /\ keeps' = IF x.added
                THEN Append(keeps, [slist |-> x.slist,
                                    accepted |-> x.accepted])
                ELSE keeps
    /\ fetches' = Fetched(x)
    /\ IF x.ok
       THEN /\ UNCHANGED <<result_refs, mode, last, output>>
       ELSE /\ output' = "Execution aborted."
            /\ result_refs' = result_refs - 1
            /\ mode' = "idle"
            /\ last' = [op |-> "run", ok |-> FALSE, at |-> pc]

\* variant: a loop that does not look at the stopped flag
RunStepAfterStop ==
    /\ mode = "run"
    /\ pc < sieve_binary_get_code_size(data)
    /\ Len(keeps) < KeepsCap
    /\ fetches.count < FetchCap
    /\ \E accept \in Accepts :
        \E beyond \in Beyond(sieve_interpreter_execute_operation(
                                 data, ZeroMem, St, accept).oob) :
            RunLoopBody(sieve_interpreter_execute_operation(
                            data, beyond, St, accept))
    /\ UNCHANGED <<codecVars, msgdata, result, ext_contexts, ctx>>

\* one iteration of the loop of sieve_interpreter_run
RunStep ==
    /\ mode = "run"
    /\ ~stopped
    /\ pc < sieve_binary_get_code_size(data)
    /\ Len(keeps) < KeepsCap
    /\ fetches.count < FetchCap
    /\ \E accept \in Accepts :
        \E beyond \in Beyond(sieve_interpreter_execute_operation(
                                 data, ZeroMem, St, accept).oob) :
            RunLoopBody(sieve_interpreter_execute_operation(
                            data, beyond, St, accept))
    /\ UNCHANGED <<codecVars, msgdata, result, ext_contexts, ctx>>

\* sieve_interpreter_run behind its loop
RunEnd ==
    /\ mode = "run"
    /\ ~(~stopped /\ pc < sieve_binary_get_code_size(data))
    /\ result' = "NULL"
    /\ msgdata' = "NULL"
    /\ result_refs' = result_refs - 1
    /\ mode' = "idle"
    /\ last' = [op |-> "run", ok |-> TRUE, at |-> pc]
    /\ UNCHANGED <<codecVars, keeps, fetches, ctx, pc, stopped, test_result, ext_contexts, step,
                   jumped, output>>

\* sieve_interpreter_dump_code up to its loop
DumpBegin ==
    /\ mode = "idle"
    /\ ResetFields
    /\ msgdata' = "NULL"
    /\ result' = "NULL"
    /\ mode' = "dump"
    /\ step' = NoStep
    /\ jumped' = NoJump
    /\ last' = NoLast
    /\ output' = ""
    /\ UNCHANGED <<codecVars, keeps, fetches, ctx, ext_contexts, result_refs>>

\* what the dump loop does with the bool of dump_operation
DumpLoopBody(x) ==
    /\ pc' = x.pc
    /\ step' = [kind |-> "dump", at |-> pc, known |-> x.known,
                hook |-> x.hook, ret |-> IF x.ok THEN 1 ELSE 0, ok |-> x.ok]
    /\ IF x.ok
       THEN /\ UNCHANGED <<mode, last, output>>
       ELSE /\ output' = "Binary is corrupt."
            /\ mode' = "idle"
            /\ last' = [op |-> "dump_code", ok |-> FALSE, at |-> pc]

\* one iteration of the loop of sieve_interpreter_dump_code
DumpStep ==
    /\ mode = "dump"
    /\ pc < sieve_binary_get_code_size(data)
    /\ \E beyond \in Beyond(sieve_interpreter_dump_operation(
                                data, ZeroMem, St).oob) :
        DumpLoopBody(sieve_interpreter_dump_operation(data, beyond, St))
    /\ UNCHANGED <<codecVars, keeps, fetches, ctx, stopped, test_result, msgdata, result,
                   ext_contexts, result_refs, jumped>>

\* sieve_interpreter_dump_code behind its loop
DumpEnd ==
    /\ mode = "dump"
    /\ ~(pc < sieve_binary_get_code_size(data))
    /\ output' = "[End of code]"
    /\ mode' = "idle"
    /\ last' = [op |-> "dump_code", ok |-> TRUE, at |-> pc]
    /\ UNCHANGED <<codecVars, keeps, fetches, ctx, pc, stopped, test_result, msgdata, result,
                   ext_contexts, result_refs, step, jumped>>

\* an extension attaches a context
SetContext ==
    /\ \E id \in ExtIds : \E context \in ContextVals :
        /\ ext_contexts' = sieve_interpreter_extension_set_context(
                               ext_contexts, id, context)
        /\ ctx' = [op |-> "set_context", id |-> id, value |-> context,
                   set |-> [ctx.set EXCEPT ![id] = context]]
    /\ UNCHANGED <<codecVars, pc, stopped, test_result, msgdata, result,
                   result_refs, mode, step, jumped, last, output, keeps,
                   fetches>>

\* an extension asks for its context
GetContext ==
    /\ \E id \in AskedIds :
        ctx' = [ctx EXCEPT !.op = "get_context", !.id = id,
                           !.value = sieve_interpreter_extension_get_context(
                                         ext_contexts, id)]
    /\ UNCHANGED <<codecVars, pc, stopped, test_result, msgdata, result,
                   ext_contexts, result_refs, mode, step, jumped, last,
                   output, keeps, fetches>>

(***************************************************************************)
(* Specifications                                                          *)
(***************************************************************************)

\* all byte sequences over ByteVals of length at most n
RECURSIVE ByteSeqs(_)
ByteSeqs(n) ==
    IF n = 0 THEN {<<>>}
    ELSE LET shorter == ByteSeqs(n - 1)
         IN  shorter \cup {Append(q, b) : q \in {x \in shorter : Len(x) = n - 1},
                                          b \in ByteVals}

\* a block of any content, written byte by byte with emit_byte
InitReader ==
    /\ data \in ByteSeqs(MaxCode)
    /\ returned = 0..(Len(data) - 1)
    /\ placeholders = {}
    /\ emits = Len(data)
    /\ emitted = NoEmit
    /\ patch = NoPatch
    /\ address = 0
    /\ call = NoCall
    /\ extensions = <<>>
    /\ InitInterp

\* the reader on blocks of any content
NextReader ==
    \/ ReadByte
    \/ ReadCode
    \/ ReadOffset
    \/ ReadInteger
    \/ ReadString

SpecReader == InitReader /\ [][NextReader]_vars

\* integers written and read back
NextInteger ==
    \/ EmitByte
    \/ EmitInteger
    \/ ReadInteger

SpecInteger == Init /\ [][NextInteger]_vars

\* strings written, patched and read back
NextString ==
    \/ EmitByte
    \/ EmitString
    \/ UpdateData
    \/ ReadString

SpecString == Init /\ [][NextString]_vars

\* offsets written, resolved and read back
NextOffset ==
    \/ EmitData
    \/ EmitOffset
    \/ ResolveOffset
    \/ ReadOffset

SpecOffset == Init /\ [][NextOffset]_vars

\* the offsets of the jump operands of the programs
JumpOffsets == {IntMin, -2, -1, 0, 4, 5}

\* what a program is made of: an opcode tag or an offset operand
ProgramItems ==
    {sieve_binary_emit_byte(<<>>, t).data :
        t \in (0..(Len(Opcodes) - 1)) \cup {UnknownTag}}
    \cup {sieve_binary_emit_offset(<<>>, o).data : o \in JumpOffsets}

\* the binaries of at most n items, well formed or not
RECURSIVE Programs(_)
Programs(n) ==
    IF n = 0 THEN {<<>>}
    ELSE LET shorter == Programs(n - 1)
         IN  shorter \cup {sieve_binary_emit_data(q, i).data :
                              q \in shorter, i \in ProgramItems}

\* an interpreter created on a committed binary
InitProgram ==
    /\ data \in Programs(MaxItems)
    /\ returned = {}
    /\ placeholders = {}
    /\ emits = 0
    /\ emitted = NoEmit
    /\ patch = NoPatch
    /\ address = 0
    /\ call = NoCall
    /\ extensions = <<>>
    /\ InitInterp

NextInterp ==
    \/ Reset
    \/ ProgramJump
    \/ ReadOffsetOperand
    \/ RunBegin
    \/ RunStep
    \/ RunEnd
    \/ DumpBegin
    \/ DumpStep
    \/ DumpEnd

SpecInterp == InitProgram /\ [][NextInterp]_vars

(***************************************************************************)
(* Properties                                                              *)
(***************************************************************************)

ReaderOps ==
    {"read_byte", "read_code", "read_offset", "read_integer", "read_string"}

\* an integer encoding that starts at index a ends inside the buffer
IntegerEnds(a) == \E i \in a..(Len(data) - 1) : data[i + 1] < 128

\* the buffer holds fewer bytes behind index a than a string needs: its
\* length prefix, as many bytes as the prefix declares, and the terminator
StringShort(a) ==
    \/ ~IntegerEnds(a)
    \/ LET u == sieve_binary_read_unsigned(data, ZeroMem, a)
       IN  \/ ~u.ok
           \/ \E b \in u.value : b > 30
           \/ ValueOfBits(u.value) + 1 > Len(data) - u.address

\* the buffer holds fewer bytes behind index a than primitive op needs
Short(op, a) ==
    CASE op \in {"read_byte", "read_code"} -> Len(data) - a < 1
      [] op = "read_offset" -> Len(data) - a < OffsetBytes
      [] op = "read_integer" -> ~IntegerEnds(a)
      [] op = "read_string" -> StringShort(a)
      [] OTHER -> FALSE

\* C1: a reader primitive called with its cursor inside the buffer never
\* reads a byte at an index >= the buffer length, and it fails when fewer
\* bytes remain than it needs.
C1_BoundsSafety ==
    (call.op \in ReaderOps /\ call.at <= Len(data))
        => /\ ~call.oob
           /\ Short(call.op, call.at) => ~call.ok

PcInCode == 0 <= pc /\ pc <= sieve_binary_get_code_size(data)

\* C2: the program counter stays within 0..code_size, and no reader
\* primitive leaves the cursor it was given behind the end of the buffer.
C2_CursorInBuffer ==
    /\ PcInCode
    /\ (call.op \in ReaderOps /\ call.at <= Len(data))
            => address <= Len(data)

\* the number of 7-bit groups needed for v: one for v < 128
MinimalGroups(v) ==
    IF v = {} THEN 1
    ELSE LET top == CHOOSE b \in v : \A c \in v : c <= b IN (top \div 7) + 1

\* the minimal encoding of v: most significant group first, 0x80 on every
\* byte but the last
MinimalEncoding(v) ==
    LET n == MinimalGroups(v)
    IN  [k \in 1..n |->
            ValueOfBits({b - 7 * (n - k) :
                            b \in {x \in v : x \div 7 = n - k}})
                + (IF k < n THEN 128 ELSE 0)]

\* the bytes the last emit call appended
EmittedBytes == SubSeq(data, emitted.address + 1, emitted.size)

\* C3: emit_integer of any sieve_number_t value appends its minimal
\* encoding, and read_integer at the returned address succeeds, yields the
\* value and leaves the cursor at the end of the emitted bytes.
C3_IntegerRoundTrip ==
    /\ emitted.op = "emit_integer"
            => /\ ~emitted.aborted
               /\ EmittedBytes = MinimalEncoding(emitted.value)
    /\ (emitted.op = "emit_integer" /\ call.op = "read_integer"
            /\ call.at = emitted.address)
            => /\ call.ok
               /\ call.value = emitted.value
               /\ address = emitted.size

\* length prefix, payload, terminator
StringEncoding(str) ==
    MinimalEncoding(NumberOfNat(Len(str))) \o str \o <<0>>

\* the last call read at the address the last emit_string returned, and the
\* string is the last thing in the block
ReadEmittedString ==
    /\ emitted.op = "emit_string"
    /\ call.op = "read_string"
    /\ call.at = emitted.address
    /\ emitted.size = Len(data)

\* the encoding of the emitted string with only its terminator changed
TerminatorCorrupted ==
    LET enc == StringEncoding(emitted.value)
    IN  /\ Len(EmittedBytes) = Len(enc)
        /\ \A k \in 1..(Len(enc) - 1) : EmittedBytes[k] = enc[k]
        /\ EmittedBytes[Len(enc)] # 0

\* C4: read_string at the address emit_string returned succeeds, returns the
\* emitted string and leaves the cursor just behind the 0x00 terminator; with
\* the terminator changed to a non-zero byte it fails.
C4_StringRoundTrip ==
    ReadEmittedString
        => /\ ~emitted.patched
                => /\ call.ok
                   /\ call.value = emitted.value
                   /\ address = emitted.size
                   /\ data[address] = 0
           /\ (emitted.patched /\ TerminatorCorrupted) => ~call.ok

C4_Witness ==
    /\ ReadEmittedString
    /\ ~emitted.patched
    /\ emitted.address > 0
    /\ Len(emitted.value) = 2
    /\ call.ok
    /\ call.value = emitted.value
    /\ address = Len(data)

\* the four bytes of the two's complement of v, most significant first
BigEndian(v) == [k \in 1..4 |-> (v \div 256^(4 - k)) % 256]

\* C5: emit_offset appends the 4 bytes of the value most significant first,
\* read_offset at the returned address returns the value and advances the
\* cursor by 4; with fewer than 4 bytes left read_offset fails and leaves
\* the cursor where it was.
C5_OffsetRoundTrip ==
    /\ (emitted.op = "emit_offset" /\ ~emitted.patched)
            => /\ emitted.size = emitted.address + 4
               /\ EmittedBytes = BigEndian(emitted.value)
    /\ (emitted.op = "emit_offset" /\ ~emitted.patched
            /\ call.op = "read_offset" /\ call.at = emitted.address)
            => /\ call.ok
               /\ call.value = emitted.value
               /\ address = call.at + 4
    /\ (call.op = "read_offset" /\ call.at <= Len(data)
            /\ Len(data) - call.at < 4)
            => /\ ~call.ok
               /\ address = call.at

C5_Witness ==
    /\ emitted.op = "emit_offset"
    /\ ~emitted.patched
    /\ emitted.value = -1
    /\ emitted.address > 0
    /\ call.op = "read_offset"
    /\ call.at = emitted.address
    /\ call.ok
    /\ call.value = -1
    /\ address = Len(data)

\* the last call read the offset that was resolved last
ReadResolved ==
    /\ patch.op = "resolve_offset"
    /\ call.op = "read_offset"
    /\ call.at = patch.address

\* the number of bytes emitted between the placeholder and its resolution
BytesSincePlaceholder == patch.size - (patch.address + OffsetBytes)

\* C6: after a placeholder is emitted at A, N bytes are emitted and A is
\* resolved, read_offset at A returns N + 4.
C6_ResolvedOffset ==
    ReadResolved
        => /\ call.ok
           /\ call.value = BytesSincePlaceholder + 4
           /\ call.value = patch.size - patch.address

C6_Witness ==
    /\ ReadResolved
    /\ BytesSincePlaceholder = 2
    /\ call.ok
    /\ call.value = 6

\* a taken jump that was found valid
JumpTaken == jumped.called /\ jumped.jump /\ jumped.ok

\* C7 as stated: the new program counter of a valid taken jump is the
\* program counter just behind the 4-byte operand plus the offset.
C7_TargetFromOperandEnd ==
    JumpTaken => pc = (jumped.at + OffsetBytes) + jumped.offset

\* C7: the new program counter of a valid taken jump is the program counter
\* at which the operand starts plus the offset.
C7_TargetFromOperandStart ==
    JumpTaken => pc = jumped.at + jumped.offset

C7_Witness ==
    /\ JumpTaken
    /\ step.kind = "execute"
    /\ jumped.offset = 5
    /\ pc = jumped.at + 5

\* the candidate target the jump primitive computes
Candidate == jumped.at + jumped.offset

\* C8: the jump primitive succeeds exactly when the operand is readable and
\* 0 < candidate <= code_size; otherwise it fails, leaves the program
\* counter where reading the operand left it, and the run that executed the
\* jump reports failure.
C8_JumpValidity ==
    jumped.called
        => /\ jumped.ok <=> (/\ jumped.readable
                             /\ 0 < Candidate
                             /\ Candidate <= sieve_binary_get_code_size(data))
           /\ ~jumped.ok
                => /\ pc = IF jumped.readable THEN jumped.at + OffsetBytes
                           ELSE jumped.at
                   /\ PcInCode
                   /\ step.kind = "execute"
                        => /\ mode = "idle"
                           /\ last.op = "run"
                           /\ ~last.ok

C8_Witness ==
    /\ jumped.called
    /\ jumped.jump
    /\ jumped.readable
    /\ ~jumped.ok
    /\ Candidate = sieve_binary_get_code_size(data) + 1
    /\ step.kind = "execute"
    /\ last.op = "run"
    /\ ~last.ok
    /\ pc = jumped.at + OffsetBytes

\* a call of the jump primitive in test-only mode
JumpTested == jumped.called /\ ~jumped.jump

\* C9: in test-only mode the jump primitive returns the verdict a taken jump
\* returns for the same operand, leaves the program counter just behind the
\* operand, and leaves test_result, stopped and the extension contexts as
\* they were.
C9_TestOnlyJump ==
    /\ [](JumpTested
            => /\ jumped.ok = sieve_interpreter_program_jump(
                                  data, ZeroMem, jumped.at, TRUE).ok
               /\ jumped.readable => pc = jumped.at + OffsetBytes)
    /\ [][JumpTested'
            => /\ test_result' = test_result
               /\ stopped' = stopped
               /\ ext_contexts' = ext_contexts]_vars

C9_Witness ==
    /\ JumpTested
    /\ jumped.ok
    /\ Candidate # jumped.at + OffsetBytes
    /\ pc = jumped.at + OffsetBytes
    /\ test_result
    /\ stopped

\* the last operation of a run or dump failed
StepFailed(kind) == step.kind = kind /\ ~step.ok

\* C10: an operation that resolves no opcode, has no execute hook or whose
\* hook returns failure fails, and a failed operation ends the run at once
\* with failure; a failed dump operation ends the dump with the corrupt
\* report and without the end-of-code marker.
C10_FailStop ==
    /\ (step.kind = "execute"
            /\ (~step.known \/ step.hook = "NULL" \/ step.ret = 0))
            => ~step.ok
    /\ StepFailed("execute")
            => /\ mode = "idle"
               /\ last = [op |-> "run", ok |-> FALSE, at |-> step.at]
               /\ output = "Execution aborted."
    /\ (step.kind = "dump" /\ ~step.known) => ~step.ok
    /\ StepFailed("dump")
            => /\ mode = "idle"
               /\ last = [op |-> "dump_code", ok |-> FALSE, at |-> step.at]
               /\ output = "Binary is corrupt."

C10_Witness ==
    /\ StepFailed("execute")
    /\ step.known
    /\ step.hook = "keep"
    /\ step.at > 0
    /\ pc < sieve_binary_get_code_size(data)
    /\ mode = "idle"
    /\ ~last.ok

\* the last run returned success / failure
RunSucceeded == mode = "idle" /\ last.op = "run" /\ last.ok

RunFailed == mode = "idle" /\ last.op = "run" /\ ~last.ok

\* C11: a run returns success exactly when its loop ends with pc at
\* code_size or with the stopped flag set, every operation executed having
\* succeeded; once stopped is set the run fetches nothing more and returns
\* success.
C11_RunCompletion ==
    /\ [](/\ RunSucceeded
                => /\ stopped \/ pc = sieve_binary_get_code_size(data)
                   /\ step.kind = "execute" => step.ok
          /\ RunFailed => StepFailed("execute")
          /\ (mode = "run" /\ step.kind = "execute") => step.ok)
    /\ [][(mode = "run"
                /\ (stopped \/ pc >= sieve_binary_get_code_size(data)))
            => /\ RunSucceeded'
               /\ UNCHANGED <<pc, step, keeps, stopped, test_result>>]_vars

C11_Witness ==
    /\ RunSucceeded
    /\ stopped
    /\ step.hook = "stop"
    /\ step.ok
    /\ pc < sieve_binary_get_code_size(data)

\* the programs of one operation: one that succeeds, one that stops the
\* run, one the result may reject, and one with an unknown tag
ContextPrograms ==
    {sieve_binary_emit_byte(<<>>, t).data :
        t \in {Tag("test"), Tag("stop"), Tag("keep"), UnknownTag}}

InitContext ==
    /\ data \in ContextPrograms
    /\ returned = {}
    /\ placeholders = {}
    /\ emits = 0
    /\ emitted = NoEmit
    /\ patch = NoPatch
    /\ address = 0
    /\ call = NoCall
    /\ extensions = <<>>
    /\ InitInterp

\* runs, resets and extension context calls
NextContext ==
    \/ Reset
    \/ RunBegin
    \/ RunStep
    \/ RunEnd
    \/ SetContext
    \/ GetContext

SpecContext == InitContext /\ [][NextContext]_vars

\* a step of sieve_interpreter_reset that changes something
ResetStep == last'.op = "reset" /\ last' # last

\* C12: reset sets pc to 0, stopped and test_result to false, clears the
\* message and result bindings, and leaves the extension contexts and the
\* binary as they are.
C12_ResetFrame ==
    [][ResetStep
        => /\ pc' = 0
           /\ stopped' = FALSE
           /\ test_result' = FALSE
           /\ msgdata' = "NULL"
           /\ result' = "NULL"
           /\ ext_contexts' = ext_contexts
           /\ data' = data]_vars

C12_Witness ==
    /\ last.op = "reset"
    /\ last.at > 0
    /\ output = "Execution aborted."
    /\ ext_contexts # <<>>
    /\ pc = 0
    /\ result = "NULL"

\* the context an extension must get for id: the one set last, or NULL
ExpectedContext(id) == IF id \in ExtIds THEN ctx.set[id] ELSE "NULL"

\* C13: get_context returns the context set last for the id, and NULL for
\* an id that is negative, behind the highest id set, or never set;
\* set_context on one id changes the context of no other id.
C13_ContextSlots ==
    /\ \A id \in AskedIds :
        sieve_interpreter_extension_get_context(ext_contexts, id)
            = ExpectedContext(id)
    /\ ctx.op = "get_context" => ctx.value = ExpectedContext(ctx.id)

C13_Witness ==
    /\ ctx.op = "get_context"
    /\ ctx.id = 0
    /\ ctx.value = "NULL"
    /\ Len(ext_contexts) = 2
    /\ ext_contexts[2] = "b"

\* a block is begun in a binary that has registered n extensions
InitExtension ==
    /\ data = <<>>
    /\ returned = {}
    /\ placeholders = {}
    /\ emits = 0
    /\ emitted = NoEmit
    /\ patch = NoPatch
    /\ address = 0
    /\ call = NoCall
    /\ extensions \in {[k \in 1..n |-> k] : n \in RegistrySizes}
    /\ InitInterp

\* extension references written and read back
NextExtension ==
    \/ EmitByte
    \/ EmitExtension
    \/ ReadExtension

SpecExtension == InitExtension /\ [][NextExtension]_vars

\* extension object selectors written and read back
NextObjects ==
    \/ EmitByte
    \/ EmitExtensionObject
    \/ ReadExtensionObject

SpecObjects == Init /\ [][NextObjects]_vars

\* the index the table has for an identity (the table's length when it has
\* none)
IndexOf(ext) ==
    IF \E i \in 1..Len(extensions) : extensions[i] = ext
    THEN (CHOOSE i \in 1..Len(extensions) : extensions[i] = ext) - 1
    ELSE Len(extensions)

ExtensionEmitted == emitted.op = "emit_extension" /\ ~emitted.aborted

\* the last read decoded the byte of the last extension reference, with
\* the base code it was emitted with
ReadEmittedExtension ==
    /\ ExtensionEmitted
    /\ call.op = "read_extension"
    /\ ~call.fault
    /\ call.at = emitted.address
    /\ call.value.base = emitted.value.base

\* C14: an identity has one index in the table of a binary; the byte of an
\* extension reference is base_code + index, and read_extension with the
\* same base code gives the identity back; read_extension fails on a byte
\* >= base whose index is not in the table.
C14_ExtensionRoundTrip ==
    /\ \A i, j \in 1..Len(extensions) :
           extensions[i] = extensions[j] => i = j
    /\ ExtensionEmitted =>
           /\ IndexOf(emitted.value.ext) < Len(extensions)
           /\ data[emitted.address + 1] =
                  emitted.value.base + IndexOf(emitted.value.ext)
    /\ ReadEmittedExtension =>
           call.ok /\ call.value.ext = emitted.value.ext
    /\ (/\ call.op = "read_extension"
        /\ ~call.fault
        /\ address > call.at
        /\ call.value.code >= call.value.base
        /\ call.value.code - call.value.base >= Len(extensions)) => ~call.ok

\* C15: emit_extension aborts instead of emitting for the 256th distinct
\* extension and beyond, and the byte of an emitted reference is
\* base_code + index itself, never that value modulo 256.
C15_NoTruncation ==
    emitted.op = "emit_extension" =>
        /\ IndexOf(emitted.value.ext) >= 255 => emitted.aborted
        /\ ~emitted.aborted =>
               data[emitted.address + 1] =
                   emitted.value.base + IndexOf(emitted.value.ext)

ObjectRead == call.op = "read_extension_object" /\ ~call.fault

\* the last read took the selector of the last emitted object reference,
\* with the table it was emitted for
ReadEmittedObject ==
    /\ emitted.op = "emit_extension_object"
    /\ ObjectRead
    /\ call.at = emitted.address
    /\ call.value.count = emitted.value.count

\* C16: emit_extension_object emits no byte for a table of 0 or 1 members
\* and one selector byte otherwise; read_extension_object returns none and
\* consumes nothing for 0 members, returns the sole object and consumes
\* nothing for 1 member, and otherwise consumes one byte and returns the
\* object at that selector, or none when no byte remains or the selector
\* is >= count; so for every count and code < count the reader consumes
\* the bytes the writer emitted and returns the chosen object.
C16_ObjectRoundTrip ==
    /\ emitted.op = "emit_extension_object" =>
           emitted.size - emitted.address =
               (IF emitted.value.count <= 1 THEN 0 ELSE 1)
    /\ (ObjectRead /\ call.value.count = 0) =>
           ~call.ok /\ address = call.at
    /\ (ObjectRead /\ call.value.count = 1) =>
           call.ok /\ call.value.object = 0 /\ address = call.at
    /\ (ObjectRead /\ call.value.count > 1 /\ call.at = Len(data)) =>
           ~call.ok /\ address = call.at
    /\ (ObjectRead /\ call.value.count > 1 /\ call.at < Len(data)) =>
           /\ address = call.at + 1
           /\ call.ok = (data[call.at + 1] < call.value.count)
           /\ call.ok => call.value.object = data[call.at + 1]
    /\ (ReadEmittedObject /\ emitted.value.code < emitted.value.count) =>
           /\ address = emitted.size
           /\ call.ok
           /\ call.value.object = emitted.value.code

\* ceil(width / 7): the groups an integer of the native width needs at most
MaxGroups == (NumberBits + 6) \div 7

\* blocks of continuation bytes (0x80, 0x81, 0xFF) closed by a final byte
\* (0x00, 0x7F), up to one group more than the loop of read_integer takes
OverlongBlocks ==
    {[k \in 1..(n + 1) |-> IF k <= n THEN c ELSE f] :
        n \in (MaxGroups - 3)..(MaxGroups + 1), c \in {128, 129, 255},
        f \in {0, 127}}

\* a block of groups, written byte by byte with emit_byte
InitOverlong ==
    /\ data \in OverlongBlocks
    /\ returned = 0..(Len(data) - 1)
    /\ placeholders = {}
    /\ emits = Len(data)
    /\ emitted = NoEmit
    /\ patch = NoPatch
    /\ address = 0
    /\ call = NoCall
    /\ extensions = <<>>
    /\ InitInterp

\* the reader on encodings of any length
NextOverlong ==
    \/ ReadByte
    \/ ReadInteger

SpecOverlong == InitOverlong /\ [][NextOverlong]_vars

\* the last call read an integer that lies inside the buffer
IntegerRead ==
    call.op = "read_integer" /\ call.ok /\ ~call.fault /\ ~call.oob

\* the bits the n groups from address at encode, most significant first,
\* at any width
EncodedBits(at, n) ==
    UNION {{b + 7 * (n - k) : b \in Low7(BitsOfByte(data[at + k]))} :
               k \in 1..n}

\* C17: read_integer does not succeed after more than ceil(width / 7)
\* groups, and the value of a successful read has every bit the groups
\* encode, none dropped at the high end.
C17_OverlongRejected ==
    IntegerRead =>
        /\ address - call.at <= MaxGroups
        /\ call.value = EncodedBits(call.at, address - call.at)

\* any sequence of writer calls
NextWriter ==
    \/ EmitByte
    \/ EmitData
    \/ EmitOffset
    \/ EmitInteger
    \/ EmitString
    \/ EmitExtension
    \/ UpdateData
    \/ ResolveOffset

SpecWriter == Init /\ [][NextWriter]_vars

\* a step of one of the emit operations
EmitStep == emits' = emits + 1 /\ ~emitted'.patched

\* a step of update_data or resolve_offset
PatchStep ==
    emitted'.patched /\ (emits' # emits \/ placeholders' # placeholders)

\* the number of bytes the patch of this step addresses
PatchLength == IF patch'.op = "resolve_offset" THEN OffsetBytes ELSE 1

KeepProgram ==
    Len(data) >= 1 /\ \A i \in 1..Len(data) : data[i] = Tag("keep")

\* the result took every action it was handed in this run
AllAccepted == \A i \in 1..Len(keeps) : keeps[i].accepted

\* the results the optional operand helper can hand to the keep hook
OperandResults ==
    {[ret |-> r, address |-> a, slist |-> <<>>] :
        r \in {-1, 0, 1}, a \in 0..MaxItems}

\* C19: a run of k >= 1 keep opcodes without optional operands, with a
\* result that accepts every action, calls add_keep k times, each time
\* with an empty side-effects list, succeeds and leaves the PC at
\* code_size; the keep hook fails only when the decoding of the optional
\* operands fails (add_keep is then not called) or the result rejects the
\* action.
C19_KeepRun ==
    /\ (KeepProgram /\ last.op = "run" /\ AllAccepted) =>
           /\ last.ok
           /\ Len(keeps) = Len(data)
           /\ \A i \in 1..Len(keeps) : keeps[i].slist = <<>>
           /\ pc = sieve_binary_get_code_size(data)
    /\ (step.kind = "execute" /\ step.hook = "keep" /\ step.ret = 0) =>
           /\ Len(keeps) >= 1
           /\ ~keeps[Len(keeps)].accepted
    /\ \A o \in OperandResults : \A accept \in BOOLEAN :
           LET k == cmd_keep_after_operands(o, accept)
           IN  /\ o.ret <= 0 => ~k.added /\ k.ret = o.ret
               /\ k.ret = 0 => (o.ret <= 0 /\ ~k.added) \/ ~accept
               /\ (o.ret > 0 /\ accept) => k.added /\ k.ret # 0

\* a run of the longest keep program has ended with every keep accepted
C19_Witness ==
    /\ KeepProgram
    /\ Len(data) = MaxItems
    /\ last.op = "run"
    /\ last.ok
    /\ Len(keeps) = MaxItems
    /\ AllAccepted

\* the binary is generated before an interpreter is created on it
Generating == mode = "idle" /\ last = NoLast

GenerateByte == Generating /\ EmitByte

GenerateData == Generating /\ EmitData

\* the placeholder of a jump operand, with the offsets of the programs
GenerateOffset ==
    /\ Generating
    /\ Writing
    /\ emits < MaxEmits
    /\ \E offset \in JumpOffsets :
        LET e == sieve_binary_emit_offset(data, offset)
        IN  /\ EmittedCode("emit_offset", e, offset, FALSE, FALSE)
            /\ placeholders' = placeholders \cup {e.address}

GenerateResolve == Generating /\ ResolveOffset

\* a binary with jump operands is generated, then the interpreter jumps in it
NextLink ==
    \/ GenerateByte
    \/ GenerateData
    \/ GenerateOffset
    \/ GenerateResolve
    \/ ProgramJump
    \/ RunBegin
    \/ RunStep
    \/ RunEnd

SpecLink == Init /\ [][NextLink]_vars

\* the jump primitive was just called with jump = true and the PC at the
\* placeholder that was resolved last
JumpAtResolved ==
    /\ jumped.called
    /\ jumped.jump
    /\ patch.op = "resolve_offset"
    /\ jumped.at = patch.address

\* C20: when a placeholder emitted at A is resolved at buffer size T, the
\* jump primitive called with jump = true and the PC at A succeeds and
\* sets the PC to T, which lies within the final code.
C20_JumpToResolved ==
    JumpAtResolved =>
        /\ jumped.ok
        /\ pc = patch.size
        /\ patch.size <= sieve_binary_get_code_size(data)

\* a JMP opcode of a run landed behind the bytes that follow its operand
C20_Witness ==
    /\ JumpAtResolved
    /\ step.kind = "execute"
    /\ step.hook = "jmp"
    /\ patch.address = 1
    /\ pc = patch.size
    /\ pc = sieve_binary_get_code_size(data)

\* a step that begins a run / ends one (on any exit path) / does neither
RunEntered == mode = "idle" /\ mode' = "run"

RunLeft == mode = "run" /\ mode' = "idle"

\* C21: sieve_interpreter_run takes one reference on the result when it
\* begins and releases exactly one on every exit path (end of program,
\* stop, abort), so the reference count after the run is the count before
\* it; after a successful run the message and result bindings are cleared.
C21_ReferenceNeutral ==
    /\ [](/\ mode # "run" => result_refs = 1
          /\ mode = "run" => result_refs = 2
          /\ RunSucceeded => msgdata = "NULL" /\ result = "NULL")
    /\ [][/\ RunEntered => result_refs' = result_refs + 1
          /\ RunLeft => result_refs' = result_refs - 1
          /\ (~RunEntered /\ ~RunLeft) => result_refs' = result_refs]_vars

\* a run was aborted by a failed operation and the reference is released
C21_Witness ==
    /\ RunFailed
    /\ step.kind = "execute"
    /\ ~step.ok
    /\ result_refs = 1

\* runs of sieve_interpreter_run on committed binaries
NextRun ==
    \/ RunBegin
    \/ RunStep
    \/ RunEnd

\* the condition of the while loop of sieve_interpreter_run, within the
\* bounds a run is followed for: the state predicate RunStep is enabled in
RunStepGuard ==
    /\ mode = "run"
    /\ ~stopped
    /\ pc < sieve_binary_get_code_size(data)
    /\ Len(keeps) < KeepsCap
    /\ fetches.count < FetchCap

\* this step fetched and executed an opcode: the steps of RunStep
FetchStep == fetches'.count = fetches.count + 1

\* WF_vars(RunStep), with ENABLED <<RunStep>>_vars written as the guard of
\* RunStep and <<RunStep>>_vars as the step that counts a fetch
RunStepFair == []<>(~RunStepGuard) \/ []<><<FetchStep>>_vars

\* the loop of a run is synchronous and every hook returns: a run that can
\* go on or end does so
SpecRun ==
    /\ InitProgram
    /\ [][NextRun]_vars
    /\ RunStepFair
    /\ WF_vars(RunEnd)

\* this step took a jump to the address of its opcode or before it
BackwardJumpStep ==
    jumped'.called /\ jumped'.ok /\ jumped'.jump /\ pc' <= pc

\* C22: every opcode fetch advances the PC by at least one byte unless it
\* takes a backward jump; a run without backward jumps fetches at most
\* code_size opcodes and terminates (end of program, stop or fault), so a
\* run can go on forever only through backward jumps.
C22_Termination ==
    /\ [][FetchStep => (pc' >= pc + 1 \/ BackwardJumpStep)]_vars
    /\ [](~fetches.backward
              => fetches.count <= sieve_binary_get_code_size(data))
    /\ (mode = "run") ~> (mode = "idle" \/ fetches.backward)

\* a run without backward jumps has ended after code_size fetches, one of
\* them a taken forward jump
C22_Witness ==
    /\ RunSucceeded
    /\ ~fetches.backward
    /\ fetches.count = MaxItems - 1
    /\ jumped.called /\ jumped.ok /\ jumped.jump
    /\ pc = sieve_binary_get_code_size(data)

====
